---- MODULE Spec2Model ----
(***************************************************************************)
(* A model of the sandboxed file-access layer                              *)
(* (opendevin/runtime/server/files.py), of the tag-based response parser   *)
(* (agenthub/vantage_point_agent/action_parser.py) and of the codebase     *)
(* question agent (agenthub/omniscient_chatbot/omniscient_chatbot.py).     *)
(*                                                                         *)
(* Text is a sequence of one-character strings; "LF" stands for '\n',      *)
(* "CR" for '\r' and "BAD" for a byte that is not valid utf-8.  A path is  *)
(* a sequence of segments; a requested path also says whether it is        *)
(* absolute.                                                               *)
(***************************************************************************)
EXTENDS Integers, Sequences, FiniteSets, TLC

VARIABLES
    links,      \* the sandbox's symbolic links: canonical path -> target
    fs,         \* the storage under workspace_base: relative path -> node
    req,        \* the arguments of the call, or of the calls, being served
    call,       \* the last completed call: its name and what it returned;
                \* for calls that run step by step, where each call stands
    parser      \* the matchers' fields (VantagePointActionParser*.__init__)

vars == <<links, fs, req, call, parser>>

(***************************************************************************)
(* Bounds of the model.                                                    *)
(***************************************************************************)
MaxSegs == 3          \* segments of a requested path
MaxFile == 3          \* characters of a file that exists before the first call
MaxContent == 2       \* characters of the content handed to write_file
MaxIndex == 3         \* the largest start and end of a write's range
MaxLines == 10        \* lines of the list handed to read_lines
MaxRoots == 3         \* root locations handed to load_codebases_xml
MaxText == 3          \* tokens of a response over every tag and word
MaxTagged == 5        \* tokens of a response over the finish and bash tags
MaxPaths == 2         \* codebase locations of a delegated task

(***************************************************************************)
(* Sequence helpers.                                                       *)
(***************************************************************************)
RECURSIVE SeqsUpTo(_, _)
SeqsUpTo(S, n) ==
    IF n = 0 THEN {<<>>}
    ELSE LET shorter == SeqsUpTo(S, n - 1)
         IN  shorter \cup {Append(s, x) : s \in {t \in shorter : Len(t) = n - 1}, x \in S}

Min(a, b) == IF a < b THEN a ELSE b
Max(a, b) == IF a > b THEN a ELSE b

IsPrefix(p, s) == Len(p) <= Len(s) /\ SubSeq(s, 1, Len(p)) = p

Drop(s, n) == SubSeq(s, n + 1, Len(s))

Range(s) == {s[i] : i \in 1..Len(s)}

(***************************************************************************)
(* Configuration read by resolve_path (opendevin.core.config).             *)
(***************************************************************************)
WorkspaceMount == <<"workspace">>       \* config.workspace_mount_path_in_sandbox
WorkspaceBase == <<"host", "base">>     \* config.workspace_base
Home == <<"root">>                      \* what expanduser puts for '~'
Cwd == <<"srv">>                        \* the process's current directory

NoLinks == [p \in {} |-> <<>>]

(***************************************************************************)
(* resolve_path                                                            *)
(***************************************************************************)
\* Path(file_path).expanduser(): a leading '~' of a relative path becomes the
\* home directory; pathlib drops '.' segments when it builds the path.
ExpandUser(p) ==
    LET segs == SelectSeq(p.segs, LAMBDA s : s # ".")
    IN  IF ~p.abs /\ Len(segs) > 0 /\ segs[1] = "~"
        THEN [abs |-> TRUE, segs |-> Home \o Tail(segs)]
        ELSE [abs |-> p.abs, segs |-> segs]

\* Path(working_directory) / path_in_sandbox
JoinPath(w, p) ==
    IF p.abs THEN p
    ELSE [abs |-> w.abs, segs |-> SelectSeq(w.segs, LAMBDA s : s # ".") \o p.segs]

\* Path.resolve(): absolute, '..' taken off after the links before it are followed
\* ('..' at the root stays at the root), every link replaced by its target.
RECURSIVE Canonical(_, _, _)
Canonical(lnk, done, rest) ==
    IF rest = <<>> THEN done
    ELSE LET s == Head(rest)
             next == IF s = "." THEN done
                     ELSE IF s = ".." THEN (IF done = <<>> THEN <<>> ELSE SubSeq(done, 1, Len(done) - 1))
                     ELSE IF Append(done, s) \in DOMAIN lnk THEN lnk[Append(done, s)]
                     ELSE Append(done, s)
         IN  Canonical(lnk, next, Tail(rest))

Resolve(lnk, p) == Canonical(lnk, <<>>, IF p.abs THEN p.segs ELSE Cwd \o p.segs)

\* PurePath.is_relative_to / relative_to: a comparison of whole segments.
IsRelativeTo(path, root) == IsPrefix(root, path)

RelativeTo(path, root) == Drop(path, Len(root))

\* The mutant: the containment check made on the joined path as written.
resolve_path_unresolved(lnk, file_path, working_directory) ==
    LET joined == JoinPath(working_directory, ExpandUser(file_path))
        raw == IF joined.abs THEN joined.segs ELSE Cwd \o joined.segs
    IN  IF ~IsRelativeTo(raw, WorkspaceMount)
        THEN [kind |-> "PermissionError", path |-> <<>>]
        ELSE [kind |-> "ok", path |-> WorkspaceBase \o RelativeTo(Resolve(lnk, joined), WorkspaceMount)]

resolve_path(lnk, file_path, working_directory) ==
    LET path_in_sandbox == JoinPath(working_directory, ExpandUser(file_path))
        abs_path_in_sandbox == Resolve(lnk, path_in_sandbox)
    IN  IF ~IsRelativeTo(abs_path_in_sandbox, WorkspaceMount)
        THEN [kind |-> "PermissionError", path |-> <<>>]
        ELSE [kind |-> "ok", path |-> WorkspaceBase \o RelativeTo(abs_path_in_sandbox, WorkspaceMount)]

(***************************************************************************)
(* Text and lines, as Python's str.split, file.readlines and file.writelines *)
(* treat them.                                                             *)
(***************************************************************************)
\* content.split('\n'): the pieces between the line feeds, one more than there
\* are line feeds.
RECURSIVE SplitLF(_)
SplitLF(text) ==
    IF \A i \in 1..Len(text) : text[i] # "LF" THEN <<text>>
    ELSE LET k == CHOOSE i \in 1..Len(text) :
                      text[i] = "LF" /\ \A j \in 1..(i - 1) : text[j] # "LF"
         IN  <<SubSeq(text, 1, k - 1)>> \o SplitLF(Drop(text, k))

\* Text mode with the default newline=None: on input '\r\n' and '\r' become '\n'.
RECURSIVE UniversalNewlines(_)
UniversalNewlines(data) ==
    IF data = <<>> THEN <<>>
    ELSE IF Head(data) = "CR"
         THEN IF Len(data) > 1 /\ data[2] = "LF"
              THEN <<"LF">> \o UniversalNewlines(Drop(data, 2))
              ELSE <<"LF">> \o UniversalNewlines(Tail(data))
         ELSE <<Head(data)>> \o UniversalNewlines(Tail(data))

\* The lines of a decoded text, each with its line feed; the last one has none
\* when the text does not end with a line feed.
RECURSIVE KeepEnds(_)
KeepEnds(text) ==
    IF text = <<>> THEN <<>>
    ELSE IF \A i \in 1..Len(text) : text[i] # "LF" THEN <<text>>
    ELSE LET k == CHOOSE i \in 1..Len(text) :
                      text[i] = "LF" /\ \A j \in 1..(i - 1) : text[j] # "LF"
         IN  <<SubSeq(text, 1, k)>> \o KeepEnds(Drop(text, k))

\* file.readlines() of a file opened with encoding='utf-8'.
Decodable(data) == \A i \in 1..Len(data) : data[i] # "BAD"

ReadLinesOf(data) == KeepEnds(UniversalNewlines(data))

\* ''.join(lines), and what file.writelines(lines) puts in the file.
RECURSIVE Join(_)
Join(lines) == IF lines = <<>> THEN <<>> ELSE Head(lines) \o Join(Tail(lines))

\* The mutant: the pieces joined by line feeds, none after the last.
WithLFBetween(pieces) ==
    [i \in 1..Len(pieces) |-> IF i < Len(pieces) THEN Append(pieces[i], "LF") ELSE pieces[i]]

\* [i + '\n' for i in insert]
WithLF(pieces) == [i \in 1..Len(pieces) |-> Append(pieces[i], "LF")]

\* A Python slice lst[lo:hi] with integer bounds: a negative bound counts from
\* the end, and both are clamped to the list.
PyIndex(n, i) == IF i < 0 THEN Max(n + i, 0) ELSE Min(i, n)

PySlice(lst, lo, hi) == SubSeq(lst, PyIndex(Len(lst), lo) + 1, PyIndex(Len(lst), hi))

PyFrom(lst, lo) == SubSeq(lst, PyIndex(Len(lst), lo) + 1, Len(lst))

PyUpTo(lst, hi) == SubSeq(lst, 1, PyIndex(Len(lst), hi))

(***************************************************************************)
(* read_lines and insert_lines                                             *)
(***************************************************************************)
\* The window read_lines slices, as (begin, end) with end = -1 for "to the end".
ReadWindow(n, start0, end0) ==
    LET start == Min(Max(start0, 0), n)
        end1 == IF end0 = -1 THEN -1 ELSE Max(end0, 0)
        end2 == Min(end1, n)
    IN  IF end2 = -1
        THEN [sentinel |-> TRUE, begin |-> start, end |-> n]
        ELSE LET begin == Max(0, Min(start, n - 2))
                 end3 == IF end2 > n THEN -1 ELSE Max(begin + 1, end2)
             IN  [sentinel |-> FALSE, begin |-> begin, end |-> end3]

\* The mutant: the slice [start, end) after clamping both to the file, with no
\* minimum window.
read_lines_plain(all_lines, start0, end0) ==
    LET n == Len(all_lines)
        start == Min(Max(start0, 0), n)
    IN  IF end0 = -1 THEN PyFrom(all_lines, start)
        ELSE PySlice(all_lines, start, Min(Max(end0, 0), n))

read_lines(all_lines, start0, end0) ==
    LET w == ReadWindow(Len(all_lines), start0, end0)
    IN  IF w.sentinel
        THEN (IF w.begin = 0 THEN all_lines ELSE PyFrom(all_lines, w.begin))
        ELSE PySlice(all_lines, w.begin, w.end)

\* The mutant: end = -1 taken as an index like any other, which keeps the
\* last original line.
insert_lines_no_sentinel(to_insert, original, start, end) ==
    (IF start = 0 THEN <<<<>>>> ELSE PyUpTo(original, start))
        \o WithLF(to_insert) \o PyFrom(original, end)

\* The mutant: the window clamped as read_lines clamps it, so that one original
\* line always stays.
insert_lines_clamped(to_insert, original, start, end) ==
    LET n == Len(original)
        begin == Max(0, Min(start, n - 2))
        stop == IF end = -1 THEN n ELSE Min(Max(begin + 1, end), n)
    IN  PyUpTo(original, begin) \o WithLF(to_insert) \o PyFrom(original, stop)

insert_lines(to_insert, original, start, end) ==
    (IF start = 0 THEN <<<<>>>> ELSE PyUpTo(original, start))
        \o WithLF(to_insert)
        \o (IF end = -1 THEN <<<<>>>> ELSE PyFrom(original, end))

(***************************************************************************)
(* The storage under workspace_base.  fs maps the path of every existing   *)
(* entry, relative to workspace_base, to its node; <<>> is workspace_base  *)
(* itself.  A locked node is one the process has no permission on.         *)
(***************************************************************************)
DirNode == [kind |-> "dir", data |-> <<>>, locked |-> FALSE]
LockedDir == [kind |-> "dir", data |-> <<>>, locked |-> TRUE]
FileNode(data) == [kind |-> "file", data |-> data, locked |-> FALSE]
LockedFile(data) == [kind |-> "file", data |-> data, locked |-> TRUE]

Parent(rel) == SubSeq(rel, 1, Len(rel) - 1)

\* The proper ancestors of rel inside the workspace, the nearest last.
Ancestors(rel) == [i \in 1..Len(rel) |-> SubSeq(rel, 1, i - 1)]

\* What the operating system answers when the path is walked to its last
\* segment: "ok", or the error of the first ancestor that is in the way.
WalkError(f, rel) ==
    LET anc == Ancestors(rel)
        bad == {i \in 1..Len(anc) :
                   anc[i] \notin DOMAIN f \/ f[anc[i]].kind # "dir" \/ f[anc[i]].locked}
    IN  IF bad = {} THEN "ok"
        ELSE LET i == CHOOSE k \in bad : \A j \in bad : k <= j
             IN  IF anc[i] \notin DOMAIN f THEN "FileNotFoundError"
                 ELSE IF f[anc[i]].kind # "dir" THEN "NotADirectoryError"
                 ELSE "PermissionError"

\* os.path.exists: False on any error of the walk.
\* whole is the path resolve_path returned; what lies above workspace_base exists.
InWorkspace(whole) == IsPrefix(WorkspaceBase, whole)
Rel(whole) == Drop(whole, Len(WorkspaceBase))

PathExists(f, whole) ==
    IF ~InWorkspace(whole) THEN TRUE
    ELSE WalkError(f, Rel(whole)) = "ok" /\ Rel(whole) \in DOMAIN f

\* open(whole, mode): "ok" or the exception it raises.
OpenError(f, whole, mode) ==
    LET rel == Rel(whole)
    IN  IF WalkError(f, rel) # "ok" THEN WalkError(f, rel)
        ELSE IF rel \in DOMAIN f
             THEN IF f[rel].kind = "dir" THEN "IsADirectoryError"
                  ELSE IF f[rel].locked THEN "PermissionError"
                  ELSE "ok"
             ELSE IF mode = "w" THEN "ok" ELSE "FileNotFoundError"

\* os.makedirs(dir) without exist_ok: every missing directory down to dir is
\* made; an ancestor that is a file, or one without permission, raises.
MakedirsError(f, whole) ==
    LET rel == Rel(whole)
    IN  IF WalkError(f, rel) \in {"NotADirectoryError", "PermissionError"} THEN WalkError(f, rel)
        ELSE IF rel \in DOMAIN f THEN "FileExistsError"
        ELSE "ok"

Makedirs(f, whole) ==
    LET rel == Rel(whole)
        made == {SubSeq(rel, 1, i) : i \in 1..Len(rel)} \ DOMAIN f
    IN  [p \in DOMAIN f \cup made |-> IF p \in DOMAIN f THEN f[p] ELSE DirNode]

PutFile(f, whole, data) ==
    [p \in DOMAIN f \cup {Rel(whole)} |-> IF p = Rel(whole) THEN FileNode(data) ELSE f[p]]

(***************************************************************************)
(* Observations (opendevin/events/observation), and an exception that      *)
(* leaves the call.                                                        *)
(***************************************************************************)
ErrorObservation(msg) == [obs |-> "ErrorObservation", content |-> <<>>, detail |-> msg]
FileReadObservation(content) == [obs |-> "FileReadObservation", content |-> content, detail |-> ""]
FileWriteObservation == [obs |-> "FileWriteObservation", content |-> <<>>, detail |-> ""]
Raised(exc) == [obs |-> "raised", content |-> <<>>, detail |-> exc]

(***************************************************************************)
(* read_file                                                               *)
(***************************************************************************)
read_file(lnk, f, path, workdir, start, end) ==
    LET whole_path == resolve_path(lnk, path, workdir)
    IN  IF whole_path.kind = "PermissionError" THEN ErrorObservation("not allowed")
        ELSE LET err == OpenError(f, whole_path.path, "r")
                 data == f[Rel(whole_path.path)].data
             IN  IF err = "FileNotFoundError" THEN ErrorObservation("File not found")
                 ELSE IF err = "IsADirectoryError" THEN ErrorObservation("Path is a directory")
                 ELSE IF err # "ok" THEN Raised(err)
                 ELSE IF ~Decodable(data) THEN ErrorObservation("could not be decoded")
                 ELSE FileReadObservation(Join(read_lines(ReadLinesOf(data), start, end)))

(***************************************************************************)
(* write_file: the observation it returns and the storage it leaves.       *)
(***************************************************************************)
\* The with-block of write_file in the mode chosen, on the storage g it finds.
WriteWith(g, whole, mode, content, start, end) ==
    LET insert == SplitLF(content)
        err == OpenError(g, whole, mode)
    IN  IF err = "FileNotFoundError" THEN [ret |-> ErrorObservation("File not found"), fs |-> g]
        ELSE IF err = "IsADirectoryError" THEN [ret |-> ErrorObservation("Path is a directory"), fs |-> g]
        ELSE IF err = "PermissionError" THEN [ret |-> ErrorObservation("Malformed paths"), fs |-> g]
        ELSE IF err # "ok" THEN [ret |-> Raised(err), fs |-> g]
        ELSE IF mode = "w"
             THEN [ret |-> FileWriteObservation, fs |-> PutFile(g, whole, Join(WithLF(insert)))]
        ELSE IF ~Decodable(g[Rel(whole)].data)
             THEN [ret |-> ErrorObservation("could not be decoded"), fs |-> g]
        ELSE [ret |-> FileWriteObservation,
              fs |-> PutFile(g, whole,
                        Join(insert_lines(insert, ReadLinesOf(g[Rel(whole)].data), start, end)))]

\* mode = 'w' if not os.path.exists(whole_path) else 'r+'
ModeFor(g, whole) == IF ~PathExists(g, whole) THEN "w" ELSE "r+"

\* The mode chosen and the with-block, on the storage g the directory creation left.
WriteOpened(g, whole, content, start, end) ==
    WriteWith(g, whole, ModeFor(g, whole), content, start, end)

write_file(lnk, f, path, workdir, content, start, end) ==
    LET whole_path == resolve_path(lnk, path, workdir)
        dir == SubSeq(whole_path.path, 1, Len(whole_path.path) - 1)
    IN  IF whole_path.kind = "PermissionError"
        THEN [ret |-> ErrorObservation("Malformed paths"), fs |-> f]
        ELSE IF PathExists(f, dir) THEN WriteOpened(f, whole_path.path, content, start, end)
        ELSE IF MakedirsError(f, dir) = "PermissionError"
             THEN [ret |-> ErrorObservation("Malformed paths"), fs |-> f]
        ELSE IF MakedirsError(f, dir) # "ok" THEN [ret |-> Raised(MakedirsError(f, dir)), fs |-> f]
        ELSE WriteOpened(Makedirs(f, dir), whole_path.path, content, start, end)

(***************************************************************************)
(* The matchers' fields after construction: no match kept.                 *)
(***************************************************************************)
None == [found |-> FALSE, group0 |-> <<>>, group1 |-> <<>>]

ParserInit ==
    [finish_command |-> None, bash_command |-> None,
     python_code |-> None, agent_delegate |-> None]

(***************************************************************************)
(* The file calls: a request is drawn, then served by write_file and       *)
(* read_file, each any number of times in any order (two writes at most).  *)
(***************************************************************************)
Rooted(segs) == [abs |-> TRUE, segs |-> segs]
Relative(segs) == [abs |-> FALSE, segs |-> segs]

EscapeLink == (<<"workspace", "lnk">> :> <<"etc">>)

EmptyStore == (<<>> :> DirNode)

Starts == (-1)..MaxIndex
Ends == (-2)..MaxIndex

\* Requests on the file f, absent or holding any short text.
NewFileRequests ==
    [path : {Relative(<<"f">>)}, workdir : {Rooted(WorkspaceMount)},
     content : SeqsUpTo({"a", "LF", "CR"}, MaxContent), start : Starts, end : Ends]

OldFileRequests ==
    [path : {Relative(<<"f">>)}, workdir : {Rooted(WorkspaceMount)},
     content : SeqsUpTo({"a", "LF"}, MaxContent), start : Starts, end : Ends]

OldFileStores == {EmptyStore @@ (<<"f">> :> FileNode(d)) : d \in SeqsUpTo({"a", "LF", "CR"}, MaxFile)}

\* Requests that meet the storage's errors: a target that is a directory, is
\* missing, cannot be decoded, is locked, or lies under a file or a locked directory.
ErrorStores ==
    {EmptyStore @@ (<<"f">> :> FileNode(<<"a", "LF">>)) @@ (<<"d">> :> DirNode),
     EmptyStore @@ (<<"f">> :> LockedFile(<<"a", "LF">>)) @@ (<<"d">> :> LockedDir),
     EmptyStore @@ (<<"f">> :> FileNode(<<"BAD">>)),
     EmptyStore @@ (<<"f">> :> DirNode) @@ (<<"d">> :> FileNode(<<"a">>))}

ErrorRequests ==
    [path : {Relative(<<"f">>), Relative(<<"d">>), Relative(<<"d", "g">>), Relative(<<"d", "g", "h">>),
             Relative(<<"f", "x">>), Relative(<<"..", "x">>), Relative(<<"lnk", "x">>),
             Relative(<<".">>), Rooted(<<"etc", "x">>), Rooted(<<"workspace", "d", "g">>)},
     workdir : {Rooted(WorkspaceMount)},
     content : {<<"a">>}, start : {0}, end : {-1}]

NoCall == [op |-> "none", ret |-> Raised("none"), writes |-> 0, pre |-> EmptyStore]

InitFiles ==
    /\ links = EscapeLink
    /\ parser = ParserInit
    /\ call = NoCall
    /\ \/ fs = EmptyStore /\ req \in NewFileRequests
       \/ fs \in OldFileStores /\ req \in OldFileRequests
       \/ fs \in ErrorStores /\ req \in ErrorRequests

WriteFile ==
    /\ call.op \in {"none", "write_file", "read_file"}
    /\ call.writes < 2
    /\ LET r == write_file(links, fs, req.path, req.workdir, req.content, req.start, req.end)
       IN  /\ fs' = r.fs
           /\ call' = [op |-> "write_file", ret |-> r.ret, writes |-> call.writes + 1, pre |-> fs]
    /\ UNCHANGED <<links, req, parser>>

\* read_file with its default range, the whole file.
ReadFile ==
    /\ call.op \in {"none", "write_file"}
    /\ call' = [op |-> "read_file", ret |-> read_file(links, fs, req.path, req.workdir, 0, -1),
                writes |-> call.writes, pre |-> call.pre]
    /\ UNCHANGED <<links, fs, req, parser>>

NextFiles == WriteFile \/ ReadFile

SpecFiles == InitFiles /\ [][NextFiles]_vars

(***************************************************************************)
(* read_lines as a function: a list of lines and a range are drawn, and    *)
(* read_lines is applied to them.  Line i of the list is the number i.     *)
(***************************************************************************)
LineList(n) == [i \in 1..n |-> i]

InitLines ==
    /\ links = NoLinks
    /\ fs = EmptyStore
    /\ parser = ParserInit
    /\ req \in [all_lines : {LineList(n) : n \in 0..MaxLines},
                start : (-2)..(MaxLines + 2), end : (-2)..(MaxLines + 2)]
    /\ call = [op |-> "none", ret |-> <<>>]

ReadLines ==
    /\ call.op = "none"
    /\ call' = [op |-> "read_lines", ret |-> read_lines(req.all_lines, req.start, req.end)]
    /\ UNCHANGED <<links, fs, req, parser>>

NextLines == ReadLines

SpecLines == InitLines /\ [][NextLines]_vars

(***************************************************************************)
(* Properties of the file calls.                                           *)
(***************************************************************************)
\* What the request's path resolves to, and the text of that file in a store.
Target == resolve_path(links, req.path, req.workdir)

WasFile(f) ==
    /\ Target.kind = "ok"
    /\ WalkError(f, Rel(Target.path)) = "ok"
    /\ Rel(Target.path) \in DOMAIN f
    /\ f[Rel(Target.path)].kind = "file"

TextIn(f) == f[Rel(Target.path)].data

\* C3: every failure inside read_file or write_file comes back as an error
\* observation; no exception leaves the call.
C3_NoExceptionEscapes ==
    call.op \in {"read_file", "write_file"} => call.ret.obs # "raised"

\* C7, as claimed: a write of content to a path that does not exist, then a
\* read of the whole file, returns exactly content.
C7_RoundTripExact ==
    [][(/\ call.op = "write_file" /\ call.writes = 1
        /\ call.ret = FileWriteObservation
        /\ Target.kind = "ok" /\ ~PathExists(call.pre, Target.path)
        /\ call'.op = "read_file")
       => call'.ret = FileReadObservation(req.content)]_vars

\* C7, amended: when content holds no carriage return, the read returns
\* content followed by one line feed.
C7_RoundTripAddsLineFeed ==
    [][(/\ call.op = "write_file" /\ call.writes = 1
        /\ call.ret = FileWriteObservation
        /\ Target.kind = "ok" /\ ~PathExists(call.pre, Target.path)
        /\ "CR" \notin Range(req.content)
        /\ call'.op = "read_file")
       => call'.ret = FileReadObservation(Append(req.content, "LF"))]_vars

C7_Witness ==
    /\ call.op = "read_file" /\ call.writes = 1
    /\ Target.kind = "ok" /\ ~PathExists(call.pre, Target.path)
    /\ req.content = <<"a", "LF">>
    /\ call.ret = FileReadObservation(<<"a", "LF", "LF">>)

\* C8, as claimed: the same write made twice leaves the file after the second
\* write as it was after the first, for every range.
C8_IdempotentAnyRange ==
    (call.op = "write_file" /\ call.writes = 2) => fs = call.pre

\* C8, amended: so it is for the default range, start = 0 and end = -1.
C8_IdempotentWholeFile ==
    (call.op = "write_file" /\ call.writes = 2 /\ req.start = 0 /\ req.end = -1)
        => fs = call.pre

C8_Witness ==
    /\ call.op = "write_file" /\ call.writes = 2
    /\ req.start = 0 /\ req.end = -1
    /\ call.ret = FileWriteObservation
    /\ WasFile(fs) /\ TextIn(fs) = <<"a", "LF", "LF">>
    /\ fs = call.pre

\* C10, as claimed: a write to an existing file replaces the window
\* [begin, end) with begin = clamp(start, 0, lineCount-2) and
\* end = max(begin+1, end) clamped to lineCount, so that one original line
\* at least is still there.
C10_ClampedWindow ==
    (/\ call.op = "write_file" /\ call.writes = 1
     /\ call.ret = FileWriteObservation
     /\ WasFile(call.pre))
    => LET orig == ReadLinesOf(TextIn(call.pre))
           n == Len(orig)
           begin == Max(0, Min(req.start, n - 2))
           stop == IF req.end = -1 THEN n ELSE Min(Max(begin + 1, req.end), n)
       IN  /\ TextIn(fs) = Join(SubSeq(orig, 1, begin) \o WithLF(SplitLF(req.content))
                                   \o SubSeq(orig, stop + 1, n))
           /\ n > 0 => (begin > 0 \/ stop < n)

\* C10, amended: for start >= 0 and end >= -1, a write to an existing file
\* keeps the lines before index start and the lines from index end on (none
\* when end = -1), in their order, with the new lines between them; neither
\* index is clamped to a window inside the file.
C10_SliceWindow ==
    (/\ call.op = "write_file" /\ call.writes = 1
     /\ call.ret = FileWriteObservation
     /\ WasFile(call.pre)
     /\ req.start >= 0 /\ req.end >= -1)
    => LET orig == ReadLinesOf(TextIn(call.pre))
           n == Len(orig)
       IN  TextIn(fs) = Join(SubSeq(orig, 1, Min(req.start, n)))
                           \o Join(WithLF(SplitLF(req.content)))
                           \o (IF req.end = -1 THEN <<>>
                               ELSE Join(SubSeq(orig, Min(req.end, n) + 1, n)))

C10_Witness ==
    /\ call.op = "write_file" /\ call.writes = 1
    /\ call.ret = FileWriteObservation
    /\ WasFile(call.pre) /\ TextIn(call.pre) = <<"a", "LF", "LF">>
    /\ req.start = 1 /\ req.end = 2 /\ req.content = <<"a", "a">>
    /\ TextIn(fs) = <<"a", "LF", "a", "a", "LF">>

(***************************************************************************)
(* Properties of read_lines.                                               *)
(***************************************************************************)
\* C9, as claimed: a range whose end is before its start reads as
\* [start, start], which is empty, and the window read is inside the file.
C9_ReversedRangeEmpty ==
    (call.op = "read_lines" /\ req.end # -1 /\ req.end < req.start)
    => LET w == ReadWindow(Len(req.all_lines), req.start, req.end)
       IN  /\ call.ret = read_lines(req.all_lines, req.start, req.start)
           /\ call.ret = <<>>
           /\ 0 <= w.begin /\ w.begin <= w.end /\ w.end <= Len(req.all_lines)

\* C9, amended: for 0 <= end < start < lineCount the read returns what
\* [start, start] returns, which is the one line at index
\* min(start, lineCount - 2); and on a list of at least one line the window
\* of every read satisfies 0 <= begin <= end <= lineCount.
C9_ReversedRangeOneLine ==
    call.op = "read_lines"
    => LET n == Len(req.all_lines)
           w == ReadWindow(n, req.start, req.end)
       IN  /\ (0 <= req.end /\ req.end < req.start /\ req.start < n)
                => /\ call.ret = read_lines(req.all_lines, req.start, req.start)
                   /\ call.ret = <<req.all_lines[Min(req.start, n - 2) + 1]>>
           /\ n >= 1 => (0 <= w.begin /\ w.begin <= w.end /\ w.end <= n)

C9_Witness ==
    /\ call.op = "read_lines"
    /\ Len(req.all_lines) = 10 /\ req.start = 5 /\ req.end = 3
    /\ call.ret = <<6>>

(***************************************************************************)
(* resolve_path as a function: a requested path, a working directory and   *)
(* the sandbox's links are drawn, and resolve_path is applied to them.     *)
(***************************************************************************)
Segments == {"..", ".", "~", "workspace", "a", "lnk"}

RequestedPaths == {[abs |-> b, segs |-> s] : b \in BOOLEAN, s \in SeqsUpTo(Segments, MaxSegs)}

WorkingDirectories ==
    {Rooted(<<"workspace">>), Rooted(<<"workspace", "a">>), Rooted(<<>>), Relative(<<"a">>)}

\* A link out of the workspace, one inside it, one into it from the home directory.
LinkTables ==
    {NoLinks, EscapeLink,
     (<<"workspace", "lnk">> :> <<"workspace", "a">>),
     (<<"root", "lnk">> :> <<"workspace", "a">>)}

InitResolve ==
    /\ links \in LinkTables
    /\ fs = EmptyStore
    /\ parser = ParserInit
    /\ req \in [path : RequestedPaths, workdir : WorkingDirectories]
    /\ call = [op |-> "none", ret |-> [kind |-> "none", path |-> <<>>]]

ResolveRequest ==
    /\ call.op = "none"
    /\ call' = [op |-> "resolve_path", ret |-> resolve_path(links, req.path, req.workdir)]
    /\ UNCHANGED <<links, fs, req, parser>>

NextResolve == ResolveRequest

SpecResolve == InitResolve /\ [][NextResolve]_vars

\* C1: resolve_path fails with the sandbox violation and returns no path, or
\* returns the host path of a canonical path that is the workspace root or
\* below it: no '.', '..' or link is left in it, however many '..' the
\* request holds, and it fails whenever the canonical path is outside.
C1_ResolvedInsideWorkspace ==
    call.op = "resolve_path"
    => LET canonical == Resolve(links, JoinPath(req.workdir, ExpandUser(req.path)))
       IN  \/ /\ call.ret.kind = "PermissionError"
              /\ call.ret.path = <<>>
              /\ ~IsPrefix(WorkspaceMount, canonical)
           \/ /\ call.ret.kind = "ok"
              /\ IsPrefix(WorkspaceBase, call.ret.path)
              /\ canonical = WorkspaceMount \o Rel(call.ret.path)
              /\ \A i \in 1..Len(canonical) :
                    /\ canonical[i] \notin {".", ".."}
                    /\ SubSeq(canonical, 1, i) \notin DOMAIN links

C1_Witness ==
    /\ call.op = "resolve_path"
    /\ req.path = Relative(<<"..", "..", "workspace">>)
    /\ req.workdir = Rooted(<<"workspace", "a">>)
    /\ call.ret = [kind |-> "ok", path |-> WorkspaceBase]

(***************************************************************************)
(* load_codebases_xml.  The manifest is kept as its structure: one set of  *)
(* (path, content) entries for each root location, in the order of the     *)
(* locations.                                                              *)
(***************************************************************************)
CodebasesLoadedObservation(manifest) ==
    [obs |-> "CodebasesLoadedObservation", content |-> manifest, detail |-> ""]

\* file_name.endswith('.' + ext), for the file names of the model.
EndsWithExt(name, ext) == <<name, ext>> \in {<<"m.py", "py">>, <<"k.py", "py">>, <<"n.txt", "txt">>}

\* any(file_name.endswith(f'.{ext}') for ext in extensions) or extensions == []
Kept(name, extensions) ==
    extensions = <<>> \/ \E i \in 1..Len(extensions) : EndsWithExt(name, extensions[i])

\* '__pycache__' in root_path, a test on the whole path of the directory.
CacheMarked(dir) == "__pycache__" \in Range(WorkspaceBase \o dir)

\* The files os.walk(top) reports: those below top that are reached through
\* directories it can list.  A top that is missing, a file or locked gives none:
\* os.walk swallows the errors of listing.
Listable(f, d) == WalkError(f, d) = "ok" /\ d \in DOMAIN f /\ f[d].kind = "dir" /\ ~f[d].locked

Walked(f, top) ==
    {p \in DOMAIN f : /\ Len(p) > Len(top) /\ IsPrefix(top, p)
                      /\ f[p].kind = "file"
                      /\ \A i \in Len(top)..(Len(p) - 1) : Listable(f, SubSeq(p, 1, i))}

\* os.path.normpath of an absolute path: '.' and '..' taken off as written.
RECURSIVE NormPath(_, _)
NormPath(done, rest) ==
    IF rest = <<>> THEN done
    ELSE NormPath(IF Head(rest) = "." THEN done
                  ELSE IF Head(rest) = ".." THEN SubSeq(done, 1, Len(done) - 1)
                  ELSE Append(done, Head(rest)),
                  Tail(rest))

\* os.path.relpath(path, start)
RelPath(path, start) ==
    LET from == NormPath(<<>>, IF start.abs THEN start.segs ELSE Cwd \o start.segs)
        common == CHOOSE k \in 0..Min(Len(path), Len(from)) :
                      /\ SubSeq(path, 1, k) = SubSeq(from, 1, k)
                      /\ \A j \in (k + 1)..Min(Len(path), Len(from)) :
                            SubSeq(path, 1, j) # SubSeq(from, 1, j)
    IN  [i \in 1..(Len(from) - common) |-> ".."] \o Drop(path, common)

\* encodings, the list the read of a kept file goes through.
encodings == <<"utf-8", "cp1252", "iso-8859-1">>

\* Whether the bytes decode under an encoding.  "BAD" is a byte such as 0xff:
\* not valid utf-8, a character of cp1252 and of iso-8859-1.
DecodableAs(data, encoding) == encoding # "utf-8" \/ Decodable(data)

\* The loop over encodings for one file, from the i-th encoding on.  open() of
\* a locked file raises an OSError, which is logged and the next encoding
\* tried; bytes that do not decode raise UnicodeDecodeError, which the
\* except (OSError, IOError) around the read does not catch.
RECURSIVE FileLoad(_, _)
FileLoad(node, i) ==
    IF i > Len(encodings) THEN "not loaded"
    ELSE IF node.locked THEN FileLoad(node, i + 1)
    ELSE IF ~DecodableAs(node.data, encodings[i]) THEN "UnicodeDecodeError"
    ELSE "loaded"

\* The files of one root location that are kept.
KeptFiles(f, top, extensions) ==
    {p \in Walked(f, top) : ~CacheMarked(Parent(p)) /\ Kept(p[Len(p)], extensions)}

\* The <file> elements of one root location: file.read() in text mode.
Entries(f, top, working_directory, extensions) ==
    {[path |-> RelPath(WorkspaceBase \o p, working_directory),
      content |-> UniversalNewlines(f[p].data)] :
        p \in {q \in KeptFiles(f, top, extensions) : FileLoad(f[q], 1) = "loaded"}}

\* The mutant: a root location outside the workspace is passed over.
RECURSIVE LoadSkipping(_, _, _, _, _, _)
LoadSkipping(lnk, f, locations, working_directory, extensions, codebase_xml) ==
    IF locations = <<>> THEN CodebasesLoadedObservation(codebase_xml)
    ELSE LET whole == resolve_path(lnk, Head(locations), working_directory)
         IN  IF whole.kind = "PermissionError"
             THEN LoadSkipping(lnk, f, Tail(locations), working_directory, extensions, codebase_xml)
             ELSE LoadSkipping(lnk, f, Tail(locations), working_directory, extensions,
                      Append(codebase_xml, Entries(f, Rel(whole.path), working_directory, extensions)))

\* The loop over codebase_locations, with the manifest built so far.
RECURSIVE LoadFrom(_, _, _, _, _, _)
LoadFrom(lnk, f, locations, working_directory, extensions, codebase_xml) ==
    IF locations = <<>> THEN CodebasesLoadedObservation(codebase_xml)
    ELSE LET whole_path_codebase == resolve_path(lnk, Head(locations), working_directory)
             top == Rel(whole_path_codebase.path)
         IN  IF whole_path_codebase.kind = "PermissionError"
             THEN ErrorObservation("not allowed")
             ELSE IF \E p \in KeptFiles(f, top, extensions) : FileLoad(f[p], 1) = "UnicodeDecodeError"
             THEN ErrorObservation("could not be decoded")
             ELSE LoadFrom(lnk, f, Tail(locations), working_directory, extensions,
                      Append(codebase_xml, Entries(f, top, working_directory, extensions)))

load_codebases_xml(lnk, f, codebase_locations, working_directory, extensions) ==
    LoadFrom(lnk, f, codebase_locations, working_directory, extensions, <<>>)

(***************************************************************************)
(* The codebase call: the root locations, the extensions and the storage   *)
(* are drawn, and load_codebases_xml is applied to them.                   *)
(***************************************************************************)
SourceTree ==
    EmptyStore @@ (<<"src">> :> DirNode) @@ (<<"src", "m.py">> :> FileNode(<<"a", "LF">>))
        @@ (<<"src", "n.txt">> :> FileNode(<<"a">>))
        @@ (<<"src", "__pycache__">> :> DirNode)
        @@ (<<"src", "__pycache__", "k.py">> :> FileNode(<<"a">>))
        @@ (<<"lib">> :> DirNode)

LoadStores ==
    {SourceTree @@ (<<"lib", "k.py">> :> FileNode(<<"a", "a">>)),
     SourceTree @@ (<<"lib", "k.py">> :> FileNode(<<"BAD">>)),
     SourceTree @@ (<<"lib", "k.py">> :> LockedFile(<<"a", "a">>))}

Locations ==
    {Relative(<<"src">>), Relative(<<"lib">>), Relative(<<"..", "x">>), Relative(<<"lnk">>),
     Relative(<<"src", "m.py">>), Relative(<<"nowhere">>)}

InitLoad ==
    /\ links = EscapeLink
    /\ fs \in LoadStores
    /\ parser = ParserInit
    /\ req \in [locations : SeqsUpTo(Locations, MaxRoots),
                workdir : {Rooted(WorkspaceMount)},
                extensions : {<<>>, <<"py">>, <<"py", "txt">>}]
    /\ call = [op |-> "none", ret |-> Raised("none")]

LoadCodebases ==
    /\ call.op = "none"
    /\ call' = [op |-> "load_codebases_xml",
                ret |-> load_codebases_xml(links, fs, req.locations, req.workdir, req.extensions)]
    /\ UNCHANGED <<links, fs, req, parser>>

NextLoad == LoadCodebases

SpecLoad == InitLoad /\ [][NextLoad]_vars

\* C2: when one of the root locations resolves outside the workspace, the call
\* returns an error observation that carries no manifest entry, wherever in the
\* list the location stands.
Offending(i) == resolve_path(links, req.locations[i], req.workdir).kind = "PermissionError"

C2_ViolationAbortsLoad ==
    (call.op = "load_codebases_xml" /\ \E i \in 1..Len(req.locations) : Offending(i))
        => call.ret.obs = "ErrorObservation" /\ call.ret.content = <<>>

C2_Witness ==
    /\ call.op = "load_codebases_xml"
    /\ req.locations = <<Relative(<<"src">>), Relative(<<"..", "x">>), Relative(<<"lib">>)>>
    /\ req.extensions = <<"py">>
    /\ fs[<<"lib", "k.py">>] = FileNode(<<"a", "a">>)
    /\ call.ret = ErrorObservation("not allowed")

\* The text the claim expects of a file's bytes: the decoding under the first
\* encoding of the list that succeeds (0xff is y-diaeresis in cp1252).
C11_Decoded(data) == [k \in 1..Len(data) |-> IF data[k] = "BAD" THEN "y-diaeresis" ELSE data[k]]

\* C11: a decode failure of one file is never fatal to load_codebases_xml: when
\* every root location is inside the workspace the call succeeds, and each
\* location's part of the manifest holds every kept file that can be opened,
\* decoded with the first encoding that succeeds, and no file that cannot be
\* read under any encoding.
C11_DecodeFailureNeverFatal ==
    (call.op = "load_codebases_xml" /\ \A i \in 1..Len(req.locations) : ~Offending(i))
        => /\ call.ret.obs = "CodebasesLoadedObservation"
           /\ Len(call.ret.content) = Len(req.locations)
           /\ \A i \in 1..Len(req.locations) :
                 LET top == Rel(resolve_path(links, req.locations[i], req.workdir).path)
                 IN  call.ret.content[i] =
                        {[path |-> RelPath(WorkspaceBase \o q, req.workdir),
                          content |-> UniversalNewlines(C11_Decoded(fs[q].data))] :
                            q \in {r \in KeptFiles(fs, top, req.extensions) : ~fs[r].locked}}

(***************************************************************************)
(* The response parser.  A response is a sequence of tokens: the tags, and *)
(* "x" for a character of text, " " for white space and "exit" for the     *)
(* word exit.                                                              *)
(***************************************************************************)
\* re.search(open + '.*' + close, action_str, re.DOTALL) when greedy, and
\* re.search(open + '(.*?)' + close, ...) when not: the leftmost opening tag that
\* a closing tag follows, up to the last such closing tag or to the first.
\* group0 is the whole match and group1 what lies between the tags.
Search(action_str, open, close, greedy) ==
    LET n == Len(action_str)
        starts == {i \in 1..n : action_str[i] = open /\ \E j \in (i + 1)..n : action_str[j] = close}
    IN  IF starts = {} THEN None
        ELSE LET i == CHOOSE k \in starts : \A m \in starts : k <= m
                 ends == {j \in (i + 1)..n : action_str[j] = close}
                 j == IF greedy THEN CHOOSE k \in ends : \A m \in ends : k >= m
                      ELSE CHOOSE k \in ends : \A m \in ends : k <= m
             IN  [found |-> TRUE, group0 |-> SubSeq(action_str, i, j),
                  group1 |-> SubSeq(action_str, i + 1, j - 1)]

\* str.strip()
RECURSIVE LStrip(_)
LStrip(t) == IF t # <<>> /\ Head(t) = " " THEN LStrip(Tail(t)) ELSE t

RECURSIVE RStrip(_)
RStrip(t) == IF t # <<>> /\ t[Len(t)] = " " THEN RStrip(SubSeq(t, 1, Len(t) - 1)) ELSE t

Strip(t) == RStrip(LStrip(t))

\* action_str.replace(sub, ''): every occurrence of sub taken out, from the left.
RECURSIVE Remove(_, _)
Remove(t, sub) ==
    IF Len(t) < Len(sub) \/ sub = <<>> THEN t
    ELSE IF SubSeq(t, 1, Len(sub)) = sub THEN Remove(Drop(t, Len(sub)), sub)
    ELSE <<Head(t)>> \o Remove(Tail(t), sub)

\* The actions (opendevin.events.action), and an assertion that fails.
AgentFinishAction(thought) ==
    [type |-> "AgentFinishAction", thought |-> thought, body |-> <<>>, wait |-> FALSE]
CmdRunAction(command, thought) ==
    [type |-> "CmdRunAction", thought |-> thought, body |-> command, wait |-> FALSE]
IPythonRunCellAction(code, thought) ==
    [type |-> "IPythonRunCellAction", thought |-> thought, body |-> code, wait |-> FALSE]
AgentDelegateAction(task) ==
    [type |-> "AgentDelegateAction", thought |-> <<>>, body |-> task, wait |-> FALSE]
MessageAction(content) ==
    [type |-> "MessageAction", thought |-> <<>>, body |-> content, wait |-> TRUE]
AssertionError == [type |-> "AssertionError", thought |-> <<>>, body |-> <<>>, wait |-> FALSE]

\* check_condition of each matcher: the match is kept in the matcher's field,
\* and the answer is whether the field holds one.
FinishCheck(p, action_str) ==
    LET q == [p EXCEPT !.finish_command = Search(action_str, "<finish>", "</finish>", TRUE)]
    IN  [parser |-> q, matched |-> q.finish_command.found]

\* The mutant: the match is not kept in the field.
CmdRunCheckUnkept(p, action_str) ==
    [parser |-> p,
     matched |-> Search(action_str, "<execute_bash>", "</execute_bash>", FALSE).found]

CmdRunCheck(p, action_str) ==
    LET q == [p EXCEPT !.bash_command = Search(action_str, "<execute_bash>", "</execute_bash>", FALSE)]
    IN  [parser |-> q, matched |-> q.bash_command.found]

IPythonCheck(p, action_str) ==
    LET q == [p EXCEPT !.python_code = Search(action_str, "<execute_ipython>", "</execute_ipython>", FALSE)]
    IN  [parser |-> q, matched |-> q.python_code.found]

DelegateCheck(p, action_str) ==
    LET q == [p EXCEPT !.agent_delegate =
                  Search(action_str, "<ask_omniscient_chatbot>", "</ask_omniscient_chatbot>", TRUE)]
    IN  [parser |-> q, matched |-> q.agent_delegate.found]

\* parse of each matcher, on the matcher's fields.
FinishParse(p, action_str) ==
    IF ~p.finish_command.found THEN AssertionError
    ELSE AgentFinishAction(Strip(Remove(action_str, p.finish_command.group0)))

CmdRunParse(p, action_str) ==
    IF ~p.bash_command.found THEN AssertionError
    ELSE LET thought == Strip(Remove(action_str, p.bash_command.group0))
             command_group == Strip(p.bash_command.group1)
         IN  IF command_group = <<"exit">> THEN AgentFinishAction(<<>>)
             ELSE CmdRunAction(command_group, thought)

IPythonParse(p, action_str) ==
    IF ~p.python_code.found THEN AssertionError
    ELSE IPythonRunCellAction(Strip(p.python_code.group1),
                              Strip(Remove(action_str, p.python_code.group0)))

DelegateParse(p, action_str) ==
    IF ~p.agent_delegate.found THEN AssertionError
    ELSE LET thought == Strip(Remove(action_str, p.agent_delegate.group0))
             question_to_ask == Strip(p.agent_delegate.group1)
         IN  AgentDelegateAction(thought \o <<". My question for the Omniscient Chatbot is: ">>
                                     \o question_to_ask)

\* The mutant: the content trimmed as the thoughts are.
MessageParseTrimmed(action_str) == MessageAction(Strip(action_str))

MessageParse(action_str) == MessageAction(action_str)

\* The mutant: the command matcher asked before the finish matcher.
parse_action_cmd_first(p, action_str) ==
    LET c1 == CmdRunCheck(p, action_str)
        c2 == FinishCheck(c1.parser, action_str)
        c3 == IPythonCheck(c2.parser, action_str)
        c4 == DelegateCheck(c3.parser, action_str)
    IN  IF c1.matched THEN [parser |-> c1.parser, ret |-> CmdRunParse(c1.parser, action_str)]
        ELSE IF c2.matched THEN [parser |-> c2.parser, ret |-> FinishParse(c2.parser, action_str)]
        ELSE IF c3.matched THEN [parser |-> c3.parser, ret |-> IPythonParse(c3.parser, action_str)]
        ELSE IF c4.matched THEN [parser |-> c4.parser, ret |-> DelegateParse(c4.parser, action_str)]
        ELSE [parser |-> c4.parser, ret |-> MessageParse(action_str)]

\* parse_action: the matchers in the order of self.action_parsers, then the
\* default parser.  It gives the action and the fields it leaves.
parse_action(p, action_str) ==
    LET c1 == FinishCheck(p, action_str)
        c2 == CmdRunCheck(c1.parser, action_str)
        c3 == IPythonCheck(c2.parser, action_str)
        c4 == DelegateCheck(c3.parser, action_str)
    IN  IF c1.matched THEN [parser |-> c1.parser, ret |-> FinishParse(c1.parser, action_str)]
        ELSE IF c2.matched THEN [parser |-> c2.parser, ret |-> CmdRunParse(c2.parser, action_str)]
        ELSE IF c3.matched THEN [parser |-> c3.parser, ret |-> IPythonParse(c3.parser, action_str)]
        ELSE IF c4.matched THEN [parser |-> c4.parser, ret |-> DelegateParse(c4.parser, action_str)]
        ELSE [parser |-> c4.parser, ret |-> MessageParse(action_str)]

\* parse_response: for bash, ipython and browse in this order, the closing tag
\* is appended when the opening tag is in the text and the closing tag is not.
Closed(action, lang) ==
    IF lang[1] \in Range(action) /\ lang[2] \notin Range(action)
    THEN Append(action, lang[2]) ELSE action

Bash == <<"<execute_bash>", "</execute_bash>">>
IPython == <<"<execute_ipython>", "</execute_ipython>">>
Browse == <<"<execute_browse>", "</execute_browse>">>
Finish == <<"<finish>", "</finish>">>
Delegate == <<"<ask_omniscient_chatbot>", "</ask_omniscient_chatbot>">>

\* The mutant: the text handed on as it came.
parse_response_as_is(content) == content

parse_response(content) == Closed(Closed(Closed(content, Bash), IPython), Browse)

\* parse
parse(p, content) == parse_action(p, parse_response(content))

(***************************************************************************)
(* The parser calls: a response is drawn and parsed, by parse or by        *)
(* parse_action; after a call another response may come to the same parser.*)
(***************************************************************************)
Words == {"x", " ", "exit"}

AllTokens ==
    Range(Bash) \cup Range(IPython) \cup Range(Finish) \cup Range(Delegate)
        \cup Range(Browse) \cup Words

Texts ==
    SeqsUpTo(AllTokens, MaxText) \cup SeqsUpTo(Range(Bash) \cup Range(Finish) \cup {"x"}, MaxTagged)

LaterTexts == {<<>>, <<"<execute_bash>", "x", "</execute_bash>">>, <<"<finish>", "</finish>">>}

NoParse == [op |-> "none", action_str |-> <<>>, ret |-> AssertionError]

InitParser ==
    /\ links = NoLinks
    /\ fs = EmptyStore
    /\ parser = ParserInit
    /\ req \in [text : Texts]
    /\ call = NoParse

DoParseAction ==
    /\ call.op = "none"
    /\ LET r == parse_action(parser, req.text)
       IN  /\ parser' = r.parser
           /\ call' = [op |-> "parse_action", action_str |-> req.text, ret |-> r.ret]
    /\ UNCHANGED <<links, fs, req>>

DoParse ==
    /\ call.op = "none"
    /\ LET r == parse(parser, req.text)
       IN  /\ parser' = r.parser
           /\ call' = [op |-> "parse", action_str |-> parse_response(req.text), ret |-> r.ret]
    /\ UNCHANGED <<links, fs, req>>

NextResponse ==
    /\ call.op # "none"
    /\ req.text \notin LaterTexts
    /\ \E t \in LaterTexts : req' = [text |-> t]
    /\ call' = NoParse
    /\ UNCHANGED <<links, fs, parser>>

NextParser == DoParseAction \/ DoParse \/ NextResponse

SpecParser == InitParser /\ [][NextParser]_vars

(***************************************************************************)
(* Properties of the parser.                                               *)
(***************************************************************************)
\* An opening tag that its closing tag follows somewhere later in the text.
HasPair(t, lang) ==
    \E i \in 1..Len(t) : \E j \in (i + 1)..Len(t) : t[i] = lang[1] /\ t[j] = lang[2]

\* An opening tag that no closing tag of its kind follows.
Unclosed(t, lang) ==
    \E i \in 1..Len(t) : t[i] = lang[1] /\ \A j \in (i + 1)..Len(t) : t[j] # lang[2]

ActionTypes ==
    {"AgentFinishAction", "CmdRunAction", "IPythonRunCellAction", "AgentDelegateAction",
     "MessageAction"}

\* C4: parse_action returns one of the five actions for every text and no
\* matcher's assertion fails; when no tag matcher matches, the default parser
\* gives the message.
C4_ParseActionNeverFails ==
    call.op \in {"parse_action", "parse"}
    => /\ call.ret.type \in ActionTypes
       /\ (\A lang \in {Finish, Bash, IPython, Delegate} : ~HasPair(call.action_str, lang))
            => call.ret = MessageAction(call.action_str)

C4_Witness ==
    /\ call.op = "parse_action"
    /\ req.text = <<"</execute_bash>", "<execute_bash>", "<finish>">>
    /\ call.ret = MessageAction(req.text)

\* C5: a text with a finish tag pair and an execute-bash tag pair, in any
\* order or overlap, gives a finish action, never a command.
C5_FinishBeforeCommand ==
    (/\ call.op \in {"parse_action", "parse"}
     /\ HasPair(req.text, Finish) /\ HasPair(req.text, Bash))
    => call.ret.type = "AgentFinishAction"

C5_Witness ==
    /\ call.op = "parse_action"
    /\ req.text = <<"<execute_bash>", "<finish>", "x", "</execute_bash>", "</finish>">>
    /\ call.ret = AgentFinishAction(<<"<execute_bash>">>)

\* C6, as claimed: for each of the four opening tags, a text that holds it
\* without its closing tag is parsed as the text with the closing tag appended.
C6_EveryTagRepaired ==
    call.op = "parse"
    => \A lang \in {Finish, Bash, IPython, Delegate} :
          Unclosed(req.text, lang)
            => call.ret = parse(ParserInit, Append(req.text, lang[2])).ret

\* C6, amended: so it is for the execute-bash tag when the text holds no
\* execute-bash closing tag at all, and for the execute-ipython tag when the
\* text holds no execute-ipython closing tag at all and no execute-bash tag
\* that is open in the same way.
C6_ExecuteTagsRepaired ==
    call.op = "parse"
    => /\ ("<execute_bash>" \in Range(req.text) /\ "</execute_bash>" \notin Range(req.text))
            => call.ret = parse(ParserInit, Append(req.text, "</execute_bash>")).ret
       /\ (/\ "<execute_ipython>" \in Range(req.text)
           /\ "</execute_ipython>" \notin Range(req.text)
           /\ ~("<execute_bash>" \in Range(req.text) /\ "</execute_bash>" \notin Range(req.text)))
            => call.ret = parse(ParserInit, Append(req.text, "</execute_ipython>")).ret

C6_Witness ==
    /\ call.op = "parse"
    /\ req.text = <<"x", "<execute_bash>", "x">>
    /\ call.ret = CmdRunAction(<<"x">>, <<"x">>)

(***************************************************************************)
(* Two write_file calls that run at the same time on one storage.  Each    *)
(* call goes through its statements in order; the storage is shared, the   *)
(* call's locals are its own.  The statements of a call:                   *)
(*   "start"    resolve_path and os.path.exists(os.path.dirname(...))      *)
(*   "makedirs" os.makedirs(os.path.dirname(whole_path))                   *)
(*   "mode"     mode = 'w' if not os.path.exists(whole_path) else 'r+'     *)
(*   "open"     the with-block: open, readlines, writelines, truncate      *)
(***************************************************************************)
Callers == {1, 2}

DirOf(whole) == SubSeq(whole, 1, Len(whole) - 1)

ConcurrentPaths ==
    {Relative(<<"d", "x">>), Relative(<<"d", "y">>), Relative(<<"d", "e", "x">>),
     Relative(<<"x">>), Relative(<<"y">>)}

ConcurrentStores ==
    {EmptyStore,
     EmptyStore @@ (<<"d">> :> DirNode),
     EmptyStore @@ (<<"d">> :> DirNode) @@ (<<"d", "x">> :> FileNode(<<"a", "LF", "a", "LF">>))}

ConcurrentRequests ==
    [path : ConcurrentPaths, workdir : {Rooted(WorkspaceMount)},
     content : {<<"a">>, <<"b", "LF", "b">>}, start : {0, 1}, end : {-1}]

\* The two calls target distinct resolved paths, neither below the other.
DistinctTargets(w) ==
    LET t1 == resolve_path(NoLinks, w[1].path, w[1].workdir).path
        t2 == resolve_path(NoLinks, w[2].path, w[2].workdir).path
    IN  ~IsPrefix(t1, t2) /\ ~IsPrefix(t2, t1)

Started == [pc |-> "start", whole |-> <<>>, mode |-> "", ret |-> Raised("none")]

InitConcurrent ==
    /\ links = NoLinks
    /\ parser = ParserInit
    /\ fs \in ConcurrentStores
    /\ \E w \in [Callers -> ConcurrentRequests] :
          /\ DistinctTargets(w)
          /\ req = [w |-> w, pre |-> fs]
    /\ call = [k \in Callers |-> Started]

\* whole_path = resolve_path(path, workdir);
\* if not os.path.exists(os.path.dirname(whole_path)):
WriteResolve(k) ==
    /\ call[k].pc = "start"
    /\ LET whole_path == resolve_path(links, req.w[k].path, req.w[k].workdir)
       IN  call' = [call EXCEPT ![k] =
                IF whole_path.kind = "PermissionError"
                THEN [@ EXCEPT !.pc = "done", !.ret = ErrorObservation("Malformed paths")]
                ELSE [@ EXCEPT !.whole = whole_path.path,
                               !.pc = IF PathExists(fs, DirOf(whole_path.path))
                                      THEN "mode" ELSE "makedirs"]]
    /\ UNCHANGED <<links, fs, req, parser>>

\* os.makedirs(os.path.dirname(whole_path))
WriteMakedirs(k) ==
    /\ call[k].pc = "makedirs"
    /\ LET err == MakedirsError(fs, DirOf(call[k].whole))
       IN  IF err = "ok"
           THEN /\ fs' = Makedirs(fs, DirOf(call[k].whole))
                /\ call' = [call EXCEPT ![k].pc = "mode"]
           ELSE /\ fs' = fs
                /\ call' = [call EXCEPT ![k].pc = "done",
                                        ![k].ret = IF err = "PermissionError"
                                                   THEN ErrorObservation("Malformed paths")
                                                   ELSE Raised(err)]
    /\ UNCHANGED <<links, req, parser>>

\* mode = 'w' if not os.path.exists(whole_path) else 'r+'
WriteMode(k) ==
    /\ call[k].pc = "mode"
    /\ call' = [call EXCEPT ![k].mode = ModeFor(fs, call[k].whole), ![k].pc = "open"]
    /\ UNCHANGED <<links, fs, req, parser>>

\* with open(whole_path, mode, encoding='utf-8') as file: ...
WriteBlock(k) ==
    /\ call[k].pc = "open"
    /\ LET r == WriteWith(fs, call[k].whole, call[k].mode,
                          req.w[k].content, req.w[k].start, req.w[k].end)
       IN  /\ fs' = r.fs
           /\ call' = [call EXCEPT ![k].pc = "done", ![k].ret = r.ret]
    /\ UNCHANGED <<links, req, parser>>

NextConcurrent ==
    \E k \in Callers : WriteResolve(k) \/ WriteMakedirs(k) \/ WriteMode(k) \/ WriteBlock(k)

SpecConcurrent == InitConcurrent /\ [][NextConcurrent]_vars

\* The same write run alone on the storage the two calls started from.
Alone(k) ==
    write_file(links, req.pre, req.w[k].path, req.w[k].workdir,
               req.w[k].content, req.w[k].start, req.w[k].end)

\* C12: two write_file calls on distinct resolved paths, each of which is
\* acknowledged when run alone, are both acknowledged under every
\* interleaving of their statements, neither raises, and each file ends with
\* the content the same write run alone produces.
C12_ConcurrentWritesSafe ==
    ((\A k \in Callers : call[k].pc = "done")
        /\ (\A k \in Callers : Alone(k).ret = FileWriteObservation))
        => \A k \in Callers :
              /\ call[k].ret = FileWriteObservation
              /\ Rel(call[k].whole) \in DOMAIN fs
              /\ fs[Rel(call[k].whole)] = Alone(k).fs[Rel(call[k].whole)]

(***************************************************************************)
(* Two parse_action calls that run at the same time on one parser.  The    *)
(* matchers and their fields are the parser's, shared by the calls; a call *)
(* goes through the loop of parse_action one check_condition or parse at a *)
(* time.                                                                   *)
(***************************************************************************)
\* self.action_parsers, in order.
Matchers == <<"finish", "cmd", "ipython", "delegate">>

CheckOf(name, p, action_str) ==
    IF name = "finish" THEN FinishCheck(p, action_str)
    ELSE IF name = "cmd" THEN CmdRunCheck(p, action_str)
    ELSE IF name = "ipython" THEN IPythonCheck(p, action_str)
    ELSE DelegateCheck(p, action_str)

ParseOf(name, p, action_str) ==
    IF name = "finish" THEN FinishParse(p, action_str)
    ELSE IF name = "cmd" THEN CmdRunParse(p, action_str)
    ELSE IF name = "ipython" THEN IPythonParse(p, action_str)
    ELSE DelegateParse(p, action_str)

InterleavedTexts ==
    {<<>>, <<"x">>,
     <<"<execute_bash>", "x", "</execute_bash>">>,
     <<"x", "<execute_bash>", "exit", "</execute_bash>">>,
     <<"<execute_bash>", " ", "</execute_bash>", "x">>,
     <<"<execute_ipython>", "x", "</execute_ipython>">>,
     <<"x", "<execute_ipython>", "</execute_ipython>">>,
     <<"<finish>", "</finish>">>,
     <<"x", "<finish>", "x", "</finish>">>,
     <<"<ask_omniscient_chatbot>", "x", "</ask_omniscient_chatbot>">>,
     <<"x", "<ask_omniscient_chatbot>", "</ask_omniscient_chatbot>">>}

\* A call about to ask the i-th matcher.
Asking(i) == [pc |-> "check", at |-> i, ret |-> AssertionError]

InitInterleaved ==
    /\ links = NoLinks
    /\ fs = EmptyStore
    /\ parser = ParserInit
    /\ req \in [text : [Callers -> InterleavedTexts]]
    /\ call = [k \in Callers |-> Asking(1)]

\* if action_parser.check_condition(action_str):
CheckCondition(k) ==
    /\ call[k].pc = "check"
    /\ LET c == CheckOf(Matchers[call[k].at], parser, req.text[k])
       IN  /\ parser' = c.parser
           /\ call' = [call EXCEPT ![k] =
                    IF c.matched THEN [@ EXCEPT !.pc = "parse"]
                    ELSE IF call[k].at < Len(Matchers) THEN Asking(call[k].at + 1)
                    ELSE [@ EXCEPT !.pc = "default"]]
    /\ UNCHANGED <<links, fs, req>>

\* return action_parser.parse(action_str)
MatcherParse(k) ==
    /\ call[k].pc = "parse"
    /\ call' = [call EXCEPT ![k].pc = "done",
                            ![k].ret = ParseOf(Matchers[call[k].at], parser, req.text[k])]
    /\ UNCHANGED <<links, fs, req, parser>>

\* return self.default_parser.parse(action_str)
DefaultParse(k) ==
    /\ call[k].pc = "default"
    /\ call' = [call EXCEPT ![k].pc = "done", ![k].ret = MessageParse(req.text[k])]
    /\ UNCHANGED <<links, fs, req, parser>>

NextInterleaved == \E k \in Callers : CheckCondition(k) \/ MatcherParse(k) \/ DefaultParse(k)

SpecInterleaved == InitInterleaved /\ [][NextInterleaved]_vars

\* C13: a parse_action call that interleaves with another call on the same
\* parser returns the action it returns when run alone on its own text, and
\* no matcher assertion fails.
C13_InterleavedCallsIndependent ==
    \A k \in Callers :
        call[k].pc = "done"
            => /\ call[k].ret # AssertionError
               /\ call[k].ret = parse_action(ParserInit, req.text[k]).ret

(***************************************************************************)
(* The rationale of the actions the tag matchers give.                     *)
(***************************************************************************)
\* The text with the span the pattern matched taken out: the leftmost
\* occurrence of the matched text, which is where the match lies.
RECURSIVE WithoutSpan(_, _)
WithoutSpan(t, span) ==
    IF Len(t) < Len(span) \/ span = <<>> THEN t
    ELSE IF SubSeq(t, 1, Len(span)) = span THEN Drop(t, Len(span))
    ELSE <<Head(t)>> \o WithoutSpan(Tail(t), span)

\* The match of the matcher that determines the output for a text, among the
\* finish, command and code-cell matchers in their order.
Determining(t) ==
    LET f == Search(t, Finish[1], Finish[2], TRUE)
        c == Search(t, Bash[1], Bash[2], FALSE)
        i == Search(t, IPython[1], IPython[2], FALSE)
    IN  IF f.found THEN f ELSE IF c.found THEN c ELSE i

\* C14: when the finish, command or code-cell matcher determines the output,
\* the action's thought is the input text with the matched tag span removed
\* and trimmed, also for the finish action the command matcher gives for the
\* command 'exit'.
C14_ThoughtIsTextWithoutSpan ==
    (call.op \in {"parse_action", "parse"} /\ Determining(call.action_str).found)
        => /\ call.ret.type \in {"AgentFinishAction", "CmdRunAction", "IPythonRunCellAction"}
           /\ call.ret.thought =
                 Strip(WithoutSpan(call.action_str, Determining(call.action_str).group0))

(***************************************************************************)
(* The message parse gives when no tag matcher matches.                    *)
(***************************************************************************)
\* No finish, command, code-cell or delegate match in the text.
NoneMatches(t) ==
    /\ ~Determining(t).found
    /\ ~Search(t, Delegate[1], Delegate[2], TRUE).found

\* C15 as stated: when no tag matcher matches the text parse hands to them,
\* parse returns a message whose content is the raw response text, unchanged,
\* and which waits for a reply.
C15_MessageIsRawText ==
    (call.op = "parse" /\ NoneMatches(call.action_str))
        => call.ret = MessageAction(req.text)

\* C15 amended: when no tag matcher matches, parse returns a message that
\* waits for a reply; its content is the raw response text, followed by the
\* browse closing tag when the text holds the browse opening tag and nowhere
\* the browse closing tag.
C15_MessageIsRepairedText ==
    (call.op = "parse" /\ NoneMatches(call.action_str))
        => /\ call.ret.type = "MessageAction"
           /\ call.ret.wait
           /\ call.ret.thought = <<>>
           /\ call.ret.body =
                 IF Browse[1] \in Range(req.text) /\ Browse[2] \notin Range(req.text)
                 THEN req.text \o <<Browse[2]>>
                 ELSE req.text

C15_Witness ==
    /\ call.op = "parse"
    /\ req.text = <<"x", "<execute_browse>", "x">>
    /\ NoneMatches(call.action_str)
    /\ call.ret = MessageAction(<<"x", "<execute_browse>", "x", "</execute_browse>">>)

(***************************************************************************)
(* OmniscientChatbot.step, and the delegation that calls it: every action  *)
(* step returns is put at the end of state.history, with the observation   *)
(* of running it, before step is called again.                             *)
(***************************************************************************)
\* A value that may be None.
Absent == [given |-> FALSE, value |-> <<>>]
Given(v) == [given |-> TRUE, value |-> v]

\* The actions of step.  outputs is the 'content' entry of the outputs.
LoadCodebasesAction(paths, extensions) ==
    [type |-> "LoadCodebasesAction", paths |-> paths, extensions |-> extensions]
AnswerAction(answer) == [type |-> "MessageAction", content |-> answer]
FinishAction(outputs) == [type |-> "AgentFinishAction", outputs |-> outputs]
DelegateAction == [type |-> "AgentDelegateAction"]

NullObservation == [obs |-> "NullObservation", content |-> <<>>, detail |-> ""]

\* state.inputs['task']: None, a string that is not JSON, a string that is
\* JSON but no object, or the query as a JSON string or as a dict.  An entry
\* the query lacks is None.
ChatLocations == {Relative(<<"src">>), Relative(<<"lib">>), Relative(<<"..", "x">>)}

Queries ==
    [codebase_locations : {Given(l) : l \in SeqsUpTo(ChatLocations, MaxPaths)} \cup {Absent},
     file_extensions : {Given(<<>>), Given(<<"py">>), Absent},
     question : {Given(<<"x">>), Absent}]

NoQuery == [codebase_locations |-> Absent, file_extensions |-> Absent, question |-> Absent]

Tasks ==
    {[kind |-> k, query |-> NoQuery] : k \in {"None", "invalid", "scalar"}}
        \cup {[kind |-> k, query |-> q] : k \in {"str", "dict"}, q \in Queries}

\* self.llm.do_completion(...): the choices of the response.
Responses == {<<>>, <<<<"x">>>>, <<<<"x", " ", "x">>, <<"x">>>>}

\* The characters of the system message, the in-context example and the fixed
\* text around the codebase in the messages sent to the model.
PromptChars == 95

\* The characters of the codebase the observation holds.
RECURSIVE FileChars(_)
FileChars(files) ==
    IF files = {} THEN 0
    ELSE LET e == CHOOSE x \in files : TRUE
         IN  Len(e.path) + Len(e.content) + FileChars(files \ {e})

RECURSIVE ContentChars(_)
ContentChars(content) ==
    IF content = <<>> THEN 0 ELSE FileChars(Head(content)) + ContentChars(Tail(content))

\* step(state): the action returned or the exception raised, and
\* state.num_of_chars after it.
Returns(action, num_of_chars) == [raised |-> "", ret |-> action, num_of_chars |-> num_of_chars]
Raises(exc, num_of_chars) == [raised |-> exc, ret |-> FinishAction(Absent), num_of_chars |-> num_of_chars]

step(history, task, response, num_of_chars) ==
    IF history = <<>> \/ history[Len(history)].action.type = "AgentDelegateAction"
    THEN IF task.kind = "None"
         THEN Returns(FinishAction(Given(<<"No query provided">>)), num_of_chars)
         ELSE IF task.kind = "invalid"
         THEN Returns(FinishAction(Given(<<"Invalid JSON query">>)), num_of_chars)
         ELSE IF task.kind = "scalar" THEN Raises("AttributeError", num_of_chars)
         ELSE IF \/ ~task.query.codebase_locations.given
                 \/ ~task.query.file_extensions.given
                 \/ ~task.query.question.given
              THEN Raises("AssertionError", num_of_chars)
         ELSE Returns(LoadCodebasesAction(task.query.codebase_locations.value,
                                          task.query.file_extensions.value), num_of_chars)
    ELSE LET last == history[Len(history)]
         IN  IF last.action.type = "MessageAction" /\ last.source = "AGENT"
             THEN Returns(FinishAction(Given(last.action.content)), num_of_chars)
             ELSE IF last.action.type = "LoadCodebasesAction"
             THEN IF response = <<>> THEN Raises("IndexError", num_of_chars)
                  ELSE Returns(AnswerAction(response[1]),
                               num_of_chars + PromptChars
                                   + ContentChars(last.observation.content)
                                   + Len(response[1]))
             ELSE Returns(FinishAction(Absent), num_of_chars)

\* What running an action gives: the codebase for LoadCodebasesAction.
Observe(lnk, f, action) ==
    IF action.type = "LoadCodebasesAction"
    THEN load_codebases_xml(lnk, f, action.paths, Rooted(WorkspaceMount), action.extensions)
    ELSE NullObservation

InitChatbot ==
    /\ links = EscapeLink
    /\ fs \in LoadStores
    /\ parser = ParserInit
    /\ req \in [task : Tasks, response : Responses, source : {"AGENT", "None"}]
    /\ \E h \in {<<>>, <<[action |-> DelegateAction, source |-> "AGENT",
                           observation |-> NullObservation]>>} :
          call = [history |-> h, returned |-> <<>>, status |-> "running", num_of_chars |-> 0]

ChatbotStep ==
    /\ call.status = "running"
    /\ LET r == step(call.history, req.task, req.response, call.num_of_chars)
       IN  call' =
             IF r.raised # ""
             THEN [call EXCEPT !.status = r.raised, !.num_of_chars = r.num_of_chars]
             ELSE [history |-> Append(call.history,
                                      [action |-> r.ret, source |-> req.source,
                                       observation |-> Observe(links, fs, r.ret)]),
                   returned |-> Append(call.returned, r.ret),
                   status |-> IF r.ret.type = "AgentFinishAction" THEN "finished" ELSE "running",
                   num_of_chars |-> r.num_of_chars]
    /\ UNCHANGED <<links, fs, req, parser>>

NextChatbot == ChatbotStep

SpecChatbot == InitChatbot /\ [][NextChatbot]_vars

\* A task that holds the three entries.
WellFormed(task) ==
    /\ task.kind \in {"str", "dict"}
    /\ task.query.codebase_locations.given
    /\ task.query.file_extensions.given
    /\ task.query.question.given

\* C16: a delegation with a well-formed task never fails and ends within
\* three steps: the steps return one LoadCodebasesAction first, then at most
\* one MessageAction, which carries the model's answer, then
\* AgentFinishAction; a response with no choices gives AgentFinishAction at
\* the second step.
C16_DelegationEnds ==
    WellFormed(req.task)
        => /\ call.status \in {"running", "finished"}
           /\ Len(call.returned) <= 3
           /\ Len(call.returned) = 3 => call.status = "finished"
           /\ \A i \in 1..Len(call.returned) :
                 /\ call.returned[i].type = "LoadCodebasesAction" <=> i = 1
                 /\ call.returned[i].type = "MessageAction"
                        => i = 2 /\ req.response # <<>> /\ call.returned[i].content = req.response[1]
                 /\ (i = 2 /\ req.response = <<>>) => call.returned[i].type = "AgentFinishAction"
                 /\ call.returned[i].type = "AgentFinishAction" => i = Len(call.returned)

====
